---- MODULE Spec2Model ----
(***************************************************************************)
(* Document ingestion pipeline of ai_backend: DocumentService              *)
(* (api/services/document_service.py) on top of DocumentCRUD               *)
(* (database/crud/document_crud.py) and the DOCUMENTS / DOCUMENT_UPLOADS   *)
(* tables (database/models/document_models.py).                            *)
(*                                                                         *)
(* The registry (docs), the upload-status table (uploads) and the upload   *)
(* directory (files) are shared by all calls.  Every call of               *)
(* upload_document is a sequence of steps, one per access to shared state, *)
(* so that calls running on different threads interleave.                  *)
(***************************************************************************)
EXTENDS Integers, Sequences, FiniteSets, TLC

\* ---------------------------------------------------------------- bounds
MaxCalls == 2       \* calls of upload_document / start_upload in one run
MaxTime  == 1       \* the clock (datetime.now(), in seconds) runs 0..MaxTime
MaxOps   == 1       \* deletions and status updates in one run
MaxLen   == 3       \* longest byte sequence given to the hash on its own

\* ------------------------------------------------------ program constants
CHUNK == 4096             \* _calculate_file_hash: range(0, len, 4096)
upload_max_size == 1      \* settings.upload_max_size (bytes), scaled down

\* Python's None, one per kind of value (TLC compares like with like)
None    == "None"      \* a missing string
NoTime  == 0 - 1       \* a DateTime column that is NULL
NoDoc   == <<>>        \* no document (id)
NoJob   == <<>>        \* no upload id
Nothing == <<>>        \* an absent dict: <<>> or <<dict>>

Users     == {"u1", "u2"}
valid_types == {"common", "type1", "type2"}
allowed_extensions == {"txt", "pdf"}      \* settings.get_upload_allowed_types()
Statuses  == {"processing", "completed", "failed"}

\* the byte sequences uploaded: <<>> and <<0>> have digests with the same
\* leading digits, <<0, 0>> is larger than upload_max_size
Contents == {<<>>, <<0>>, <<1>>, <<0, 0>>}

\* ------------------------------------------------------------ pure helpers

\* Path(filename).suffix
Suffix(filename) ==
    CASE filename = "a.txt" -> ".txt"
      [] filename = "b.TXT" -> ".TXT"
      [] filename = "x.exe" -> ".exe"
      [] OTHER -> ""

\* str.lower() on the suffixes above
Lower(s) ==
    CASE s = ".TXT" -> ".txt"
      [] OTHER -> s

\* str.lstrip('.')
LStripDot(s) ==
    CASE s = ".txt" -> "txt"
      [] s = ".TXT" -> "TXT"
      [] s = ".exe" -> "exe"
      [] OTHER -> s

_get_file_extension(filename) == LStripDot(Lower(Suffix(filename)))

_get_mime_type(filename) ==
    CASE _get_file_extension(filename) = "txt" -> "text/plain"
      [] _get_file_extension(filename) = "exe" -> "application/x-msdownload"
      [] OTHER -> "application/octet-stream"

\* Faulty variant: a full chunk takes the first byte of the next one along
Slice_Overlap(s, i, j) ==
    LET hi == IF j + 1 < Len(s) THEN j + 1 ELSE Len(s)
    IN  IF i >= hi THEN <<>> ELSE SubSeq(s, i + 1, hi)

\* Faulty variant: a full chunk loses its last byte
Slice_Short(s, i, j) ==
    IF j < Len(s) THEN (IF i >= j - 1 THEN <<>> ELSE SubSeq(s, i + 1, j - 1))
    ELSE IF i >= Len(s) THEN <<>> ELSE SubSeq(s, i + 1, Len(s))

\* file_content[i:i+4096] (0-based i, python slice: clipped at the end)
Slice(s, i, j) ==
    LET hi == IF j < Len(s) THEN j ELSE Len(s)
    IN  IF i >= hi THEN <<>> ELSE SubSeq(s, i + 1, hi)

\* hashlib.md5: the digest state is the message fed so far; hexdigest is a
\* number that is different for different messages of the bounded domain
\* (no MD5 collision among them).
md5_new == <<>>
md5_update(h, chunk) == h \o chunk

RECURSIVE md5_hexdigest(_)
md5_hexdigest(h) ==
    IF h = <<>> THEN 0
    ELSE 3 * md5_hexdigest(SubSeq(h, 1, Len(h) - 1)) + h[Len(h)] + 1

RECURSIVE HashFrom(_, _, _)
HashFrom(file_content, i, h) ==
    IF i >= Len(file_content) THEN h
    ELSE HashFrom(file_content, i + CHUNK,
                  md5_update(h, Slice(file_content, i, i + CHUNK)))

\* Faulty variant: no digest (-1) for the empty input
_calculate_file_hash_RejectEmpty(file_content) ==
    IF file_content = <<>> THEN 0 - 1
    ELSE md5_hexdigest(HashFrom(file_content, 0, md5_new))

_calculate_file_hash(file_content) ==
    md5_hexdigest(HashFrom(file_content, 0, md5_new))

\* range(0, len(file_content), 4096): the offsets of the chunks fed
ChunkOffsets(n) == {i \in 0..(n - 1) : i % CHUNK = 0}

\* The loop of _calculate_file_hash with another chunk size.
RECURSIVE HashChunked(_, _, _, _)
HashChunked(file_content, i, h, size) ==
    IF i >= Len(file_content) THEN h
    ELSE HashChunked(file_content, i + size,
                     md5_update(h, Slice(file_content, i, i + size)), size)

\* file_hash[:8]: the leading digits of the digest; digests 2k and 2k+1 share them
HashPrefix(file_hash) == file_hash \div 2

\* f"{user_id}/{filename}"
_generate_file_key(user_id, filename) == <<user_id, filename>>

\* self.upload_base_path / file_key
_get_upload_path(file_key) == <<"uploads">> \o file_key

\* f"doc_{datetime.now().strftime('%Y%m%d_%H%M%S')}_{file_hash[:8]}"
NewDocumentId(t, file_hash) == <<"doc", t, HashPrefix(file_hash)>>

\* ------------------------------------------------------------------ inputs

\* What a caller passes to upload_document / start_upload.  The fields that
\* no branch reads (visibility, permissions, document type) follow the user,
\* so that two users' uploads differ in every one of them.
Request(u, f, c, t) ==
    [user_id |-> u, filename |-> f, content |-> c,
     is_public |-> (u = "u2"),
     permissions |-> IF u = "u2" THEN <<"read">> ELSE <<>>,
     document_type |-> t]

Requests ==
    {Request("u1", "a.txt", <<0>>, "common"),
     Request("u1", "a.txt", <<>>, "common"),
     Request("u1", "x.exe", <<1>>, "common"),
     Request("u1", "a.txt", <<0, 0>>, "common"),
     Request("u2", "b.TXT", <<0>>, "type1"),
     Request("u2", "b.TXT", <<0>>, "bogus"),
     Request("u2", "x.exe", <<0, 0>>, "bogus"),
     Request("u2", "x.exe", <<0, 0>>, "type1")}

\* --------------------------------------------------------------------- state

VARIABLES
    now,      \* datetime.now(), seconds
    docs,     \* DOCUMENTS table: document_id -> row (committed state)
    files,    \* upload directory: upload_path -> bytes
    uploads,  \* DOCUMENT_UPLOADS table: upload_id -> row (committed state)
    call,     \* the calls of upload_document: position and locals of each
    deleted,  \* document ids for which delete_document has returned True
    ops,      \* deletions and status updates so far
    folders   \* DOCUMENT_FOLDERS table: folder_id -> row (committed state)

vars == <<now, docs, files, uploads, call, deleted, ops, folders>>

Calls == 1..MaxCalls

IdleCall ==
    [pc |-> "idle", req |-> Request("u1", "a.txt", <<>>, "common"),
     via |-> None, job |-> NoJob, existing |-> NoDoc, existing_status |-> None,
     found_status |-> None,
     document_id |-> NoDoc, ret |-> Nothing, exc |-> None]

Init ==
    /\ now = 0
    /\ docs = <<>>
    /\ files = <<>>
    /\ uploads = <<>>
    /\ call = [w \in Calls |-> IdleCall]
    /\ deleted = {}
    /\ ops = 0
    /\ folders = <<>>

\* f with key k bound to v (INSERT or UPDATE of one row, write of one file)
Put(f, k, v) == [x \in DOMAIN f \cup {k} |-> IF x = k THEN v ELSE f[x]]

\* f without key k (DELETE of one row, unlink of one file)
Drop(f, k) == [x \in DOMAIN f \ {k} |-> f[x]]

\* ------------------------------------------------------------ the registry

\* The public view of a Document row that upload_document returns
\* (document_service.py 109-132 and 198-220); `dup` is the is_duplicate key,
\* which only the duplicate view carries.
DocumentView(d, dup) ==
    [document_id |-> d.document_id, document_name |-> d.document_name,
     original_filename |-> d.original_filename, file_size |-> d.file_size,
     file_type |-> d.file_type, file_extension |-> d.file_extension,
     file_hash |-> d.file_hash, upload_path |-> d.upload_path,
     is_public |-> d.is_public, status |-> d.status,
     permissions |-> d.permissions,
     document_type |-> IF d.document_type = None THEN "common" ELSE d.document_type,
     create_dt |-> d.create_dt, updated_at |-> d.updated_at,
     processed_at |-> d.processed_at, is_duplicate |-> dup]

\* the is_duplicate key of a returned view: True, or not in the dict
IsDup == "True"
NoKey == "absent"

\* DocumentCRUD.find_document_by_hash: the rows a lookup by fingerprint may
\* return (.first() of the matching, not deleted rows).
find_document_by_hash(file_hash) ==
    {id \in DOMAIN docs : docs[id].file_hash = file_hash /\ ~docs[id].is_deleted}

\* DocumentCRUD.update_document_status: the table after the status write.
update_document_status(document_id, status) ==
    IF document_id \in DOMAIN docs
    THEN [docs EXCEPT ![document_id].status = status,
                      ![document_id].updated_at = now,
                      ![document_id].processed_at =
                          IF status = "completed" THEN now ELSE NoTime]
    ELSE docs

\* The row upload_document asks create_document for (document_service.py
\* 178-193); the other columns take their defaults.  The call passes file_hash,
\* status, permissions and document_type, which create_document and Document
\* as found in document_crud.py / document_models.py do not declare: the row
\* carries them as the call gives them, with the lifecycle columns of the
\* Document (status, updated_at, processed_at).
NewDocument(document_id, req, file_hash, status) ==
    [document_id |-> document_id,
     document_name |-> req.filename,
     original_filename |-> req.filename,
     file_key |-> _generate_file_key(req.user_id, req.filename),
     file_size |-> Len(req.content),
     file_type |-> _get_mime_type(req.filename),
     file_extension |-> _get_file_extension(req.filename),
     user_id |-> req.user_id,
     upload_path |-> _get_upload_path(_generate_file_key(req.user_id, req.filename)),
     is_public |-> req.is_public,
     file_hash |-> file_hash,
     status |-> status,
     permissions |-> req.permissions,
     document_type |-> req.document_type,
     create_dt |-> now,
     updated_at |-> NoTime,
     processed_at |-> NoTime,
     folder_id |-> None,
     is_deleted |-> FALSE]

\* Faulty variant: db.merge instead of db.add: a row with the same id is replaced
create_document_Merge(row, db_ok) ==
    IF db_ok
    THEN <<[x \in DOMAIN docs \cup {row.document_id} |->
               IF x = row.document_id THEN row ELSE docs[x]], FALSE>>
    ELSE <<docs, TRUE>>

\* DocumentCRUD.create_document: db.add + db.commit.  DOCUMENT_ID is the primary
\* key: the commit of a second row with the same id raises, and so does a commit
\* the database refuses (db_ok = FALSE); the table is then rolled back.
\* The result is <<table, raised>>.
create_document(row, db_ok) ==
    IF db_ok /\ row.document_id \notin DOMAIN docs
    THEN <<Put(docs, row.document_id, row), FALSE>>
    ELSE <<docs, TRUE>>

\* DocumentCRUD.update_document(document_id, **{key: value}): setattr for a key
\* the Document has, then commit.  A new DOCUMENT_ID moves the row to that
\* key; the commit raises, and the table is rolled back, when another row
\* has it.  The table after the call.
update_document(document_id, key, value) ==
    IF document_id \notin DOMAIN docs THEN docs
    ELSE IF key \notin DOMAIN docs[document_id] THEN docs
    ELSE IF key = "document_id"
         THEN IF value \in DOMAIN docs \ {document_id} THEN docs
              ELSE [x \in (DOMAIN docs \ {document_id}) \cup {value} |->
                      IF x = value
                      THEN [docs[document_id] EXCEPT !.document_id = value]
                      ELSE docs[x]]
    ELSE [docs EXCEPT ![document_id][key] = value]

\* Faulty variant: the flag is not set, the call still reports success
crud_delete_document_NoFlag(document_id) ==
    IF document_id \in DOMAIN docs THEN <<docs, TRUE>> ELSE <<docs, FALSE>>

\* DocumentCRUD.delete_document: soft delete; the result is <<table, success>>.
crud_delete_document(document_id) ==
    IF document_id \in DOMAIN docs
    THEN <<[docs EXCEPT ![document_id].is_deleted = TRUE], TRUE>>
    ELSE <<docs, FALSE>>

\* ------------------------------------------------------ the upload-status table

json_dumps(d) == [json |-> d]
json_loads(s) == s.json

\* Faulty variant: the row is created in its final status
NewUpload_Completed(upload_id, req) ==
    [upload_id |-> upload_id, user_id |-> req.user_id,
     original_filename |-> req.filename, is_public |-> req.is_public,
     status |-> "completed", error_message |-> None, result_data |-> Nothing,
     file_size |-> 0 - 1, file_type |-> None, file_extension |-> None,
     start_time |-> now, end_time |-> NoTime, create_dt |-> now]

\* DocumentCRUD.create_upload: the row of a new upload.
NewUpload(upload_id, req) ==
    [upload_id |-> upload_id, user_id |-> req.user_id,
     original_filename |-> req.filename, is_public |-> req.is_public,
     status |-> "processing", error_message |-> None, result_data |-> Nothing,
     file_size |-> 0 - 1, file_type |-> None, file_extension |-> None,
     start_time |-> now, end_time |-> NoTime, create_dt |-> now]

\* DocumentCRUD.update_upload_status: the table after the call (unchanged when
\* the upload is not found, the call then returns False).
update_upload_status(upload_id, status, error_message, result_data) ==
    IF upload_id \notin DOMAIN uploads THEN uploads
    ELSE LET u == uploads[upload_id]
             r == IF result_data # Nothing
                  THEN [u EXCEPT !.result_data = <<json_dumps(result_data[1])>>,
                                 !.file_size = result_data[1].file_size,
                                 !.file_type = result_data[1].file_type,
                                 !.file_extension = result_data[1].file_extension]
                  ELSE u
         IN  Put(uploads, upload_id,
                 [r EXCEPT !.status = status,
                           !.error_message = error_message,
                           !.end_time = IF status \in {"completed", "failed"}
                                        THEN now ELSE r.end_time])

\* DocumentCRUD.get_upload_status: Nothing (None) for an unknown id, else the
\* dict of the row with the computed processing_time; the result_data key is
\* there (as <<parsed>>) only when the row stores a result.
get_upload_status(upload_id) ==
    IF upload_id \notin DOMAIN uploads THEN Nothing
    ELSE LET u == uploads[upload_id]
         IN  <<[upload_id |-> u.upload_id, user_id |-> u.user_id,
                original_filename |-> u.original_filename,
                file_size |-> u.file_size, file_type |-> u.file_type,
                file_extension |-> u.file_extension, is_public |-> u.is_public,
                status |-> u.status, error_message |-> u.error_message,
                start_time |-> u.start_time, end_time |-> u.end_time,
                create_dt |-> u.create_dt,
                processing_time |-> IF u.end_time # NoTime
                                    THEN u.end_time - u.start_time
                                    ELSE now - u.start_time,
                result_data |-> IF u.result_data # Nothing
                                THEN <<json_loads(u.result_data[1])>>
                                ELSE Nothing]>>

MsgStillProcessing == "still processing"
MsgCompleted       == "processing completed"
MsgUnknownStatus   == "unknown status"

\* Faulty variant: a stored result is returned whatever the status is
get_upload_result_AnyStatus(upload_id) ==
    IF upload_id \notin DOMAIN uploads THEN Nothing
    ELSE LET u == uploads[upload_id]
         IN  IF u.result_data # Nothing THEN <<json_loads(u.result_data[1])>>
             ELSE IF u.status = "processing"
             THEN <<[status |-> "processing", message |-> MsgStillProcessing]>>
             ELSE IF u.status = "failed"
             THEN <<[status |-> "failed", message |-> u.error_message]>>
             ELSE <<[status |-> "completed", message |-> MsgCompleted]>>

\* DocumentCRUD.get_upload_result: Nothing (None) for an unknown id, else <<dict>>.
get_upload_result(upload_id) ==
    IF upload_id \notin DOMAIN uploads THEN Nothing
    ELSE LET u == uploads[upload_id]
         IN  IF u.status = "processing"
             THEN <<[status |-> "processing", message |-> MsgStillProcessing]>>
             ELSE IF u.status = "failed"
             THEN <<[status |-> "failed", message |-> u.error_message]>>
             ELSE IF u.status = "completed"
             THEN IF u.result_data # Nothing
                  THEN <<json_loads(u.result_data[1])>>
                  ELSE <<[status |-> "completed", message |-> MsgCompleted]>>
             ELSE <<[status |-> "unknown", message |-> MsgUnknownStatus]>>

\* Faulty variant: rows created at the cutoff are purged as well
cleanup_old_uploads_Inclusive(days) ==
    LET gone == {u \in DOMAIN uploads :
                    /\ uploads[u].create_dt <= now - days
                    /\ uploads[u].status \in {"completed", "failed"}}
    IN  [u \in DOMAIN uploads \ gone |-> uploads[u]]

\* Faulty variant: the purge looks at the age only
cleanup_old_uploads_AnyStatus(days) ==
    LET gone == {u \in DOMAIN uploads : uploads[u].create_dt < now - days}
    IN  [u \in DOMAIN uploads \ gone |-> uploads[u]]

\* DocumentCRUD.cleanup_old_uploads: the table without the rows created before
\* now - days whose status is 'completed' or 'failed'.
cleanup_old_uploads(days) ==
    LET gone == {u \in DOMAIN uploads :
                    /\ uploads[u].create_dt < now - days
                    /\ uploads[u].status \in {"completed", "failed"}}
    IN  [u \in DOMAIN uploads \ gone |-> uploads[u]]

\* deleted_count of cleanup_old_uploads: the number of rows its DELETE matches
cleanup_old_uploads_count(days) ==
    Cardinality({u \in DOMAIN uploads :
                    /\ uploads[u].create_dt < now - days
                    /\ uploads[u].status \in {"completed", "failed"}})

\* DocumentCRUD.delete_upload: the table without the row (unchanged when the
\* upload is not found, the call then returns False).
delete_upload(upload_id) ==
    IF upload_id \in DOMAIN uploads THEN Drop(uploads, upload_id) ELSE uploads

\* ------------------------------------------------------------ upload_document

MsgInvalidDocType == "DOCUMENT_INVALID_FILE_TYPE: document type not in common, type1, type2"
MsgTooLarge       == "DOCUMENT_FILE_TOO_LARGE: larger than upload_max_size"
MsgBadExtension   == "DOCUMENT_INVALID_FILE_TYPE: allowed formats: txt, pdf"
MsgUploadError    == "DOCUMENT_UPLOAD_ERROR"
MsgDatabaseError  == "DATABASE_QUERY_ERROR"

\* Faulty variant: the limit is compared one byte too high
FileTooLarge_OffByOne(file_content) == Len(file_content) > upload_max_size + 1

\* file_size > max_size (document_service.py 84-88)
FileTooLarge(file_content) == Len(file_content) > upload_max_size

\* Faulty variant: the size is checked before the document type
ValidationError_SizeFirst(req) ==
    IF Len(req.content) > upload_max_size THEN MsgTooLarge
    ELSE IF req.document_type \notin valid_types THEN MsgInvalidDocType
    ELSE IF _get_file_extension(req.filename) \notin allowed_extensions
         THEN MsgBadExtension
    ELSE None

\* Faulty variant: the extension check is left out
ValidationError_NoExtensionCheck(req) ==
    IF req.document_type \notin valid_types THEN MsgInvalidDocType
    ELSE IF Len(req.content) > upload_max_size THEN MsgTooLarge
    ELSE None

\* The checks of lines 72-99 in their order: the message of the first one that
\* raises, or None.
ValidationError(req) ==
    IF req.document_type \notin valid_types THEN MsgInvalidDocType
    ELSE IF FileTooLarge(req.content) THEN MsgTooLarge
    ELSE IF _get_file_extension(req.filename) \notin allowed_extensions
         THEN MsgBadExtension
    ELSE None

\* Calls take the slots in order.
FreeSlot(w) == call[w].pc = "idle" /\ \A v \in Calls : v < w => call[v].pc # "idle"

\* Where a call goes when its body is over: a background worker still has the
\* upload status to write, a direct call is back at its caller.
AfterBody(w) == IF call[w].job = NoJob THEN "done" ELSE "finish"

\* `return {...}` and `raise HandledException(...)` of call w
Return(w, view) ==
    [call EXCEPT ![w].ret = <<view>>, ![w].pc = AfterBody(w)]
Raise(w, msg) ==
    [call EXCEPT ![w].exc = msg, ![w].pc = AfterBody(w)]

\* Faulty variant: the completed document is sent through re-processing as well
DuplicateHit_Reprocess(w, d) ==
    /\ call' = [call EXCEPT ![w].ret = <<DocumentView(docs[d], "True")>>,
                            ![w].pc = IF call[w].job = <<>> THEN "done" ELSE "finish"]
    /\ docs' = [docs EXCEPT ![d].status = "processing"]
    /\ UNCHANGED files

\* Lines 107-132: the lookup found a completed document d.
DuplicateHit(w, d) ==
    /\ call' = Return(w, DocumentView(docs[d], IsDup))
    /\ UNCHANGED <<docs, files>>

\* Lines 133-142: the lookup found document d in another status.
ReuseFound(w, d) ==
    /\ call' = [call EXCEPT ![w].existing = d,
                            ![w].existing_status = docs[d].status,
                            ![w].found_status = docs[d].status,
                            ![w].document_id = d,
                            ![w].pc = "mark"]
    /\ UNCHANGED <<docs, files>>

\* Lines 143-145: no document with the fingerprint.
MintId(w, file_hash) ==
    /\ call' = [call EXCEPT ![w].document_id = NewDocumentId(now, file_hash),
                            ![w].pc = "write"]
    /\ UNCHANGED <<docs, files>>

\* Lines 71-145: validation, fingerprint, lookup by fingerprint and the branch.
UploadLookup(w) ==
    /\ call[w].pc = "lookup"
    /\ LET req == call[w].req
           err == ValidationError(req)
           file_hash == _calculate_file_hash(req.content)
           found == find_document_by_hash(file_hash)
       IN  IF err # None
           THEN call' = Raise(w, err) /\ UNCHANGED <<docs, files>>
           ELSE IF found = {} THEN MintId(w, file_hash)
           ELSE \E d \in found :
                   IF docs[d].status = "completed"
                   THEN DuplicateHit(w, d)
                   ELSE ReuseFound(w, d)
    /\ UNCHANGED <<folders, now, uploads, deleted, ops>>

\* Faulty variant: existing_doc keeps the status the lookup read
UploadMark_StaleStatus(w) ==
    /\ call[w].pc = "mark"
    /\ docs' = update_document_status(call[w].existing, "processing")
    /\ call' = [call EXCEPT ![w].pc = "write"]
    /\ UNCHANGED <<folders, now, files, uploads, deleted, ops>>

\* Lines 136 / 141: update_document_status(existing_doc.document_id, 'processing');
\* the session's existing_doc then shows the status written.
UploadMark(w) ==
    /\ call[w].pc = "mark"
    /\ docs' = update_document_status(call[w].existing, "processing")
    /\ call' = [call EXCEPT ![w].existing_status = "processing", ![w].pc = "write"]
    /\ UNCHANGED <<folders, now, files, uploads, deleted, ops>>

\* Lines 147-156: open(upload_path, "wb") and f.write(file_content).  open may
\* raise (nothing changes) and write may raise (the file is left truncated).
UploadWrite(w) ==
    /\ call[w].pc = "write"
    /\ LET req == call[w].req
           path == _get_upload_path(_generate_file_key(req.user_id, req.filename))
       IN  \/ /\ files' = Put(files, path, req.content)
              /\ call' = [call EXCEPT ![w].pc = "registry"]
           \/ /\ files' = files
              /\ call' = Raise(w, MsgUploadError)
           \/ /\ files' = Put(files, path, <<>>)
              /\ call' = Raise(w, MsgUploadError)
    /\ UNCHANGED <<folders, now, docs, uploads, deleted, ops>>

\* f.write (line 156) or a commit (lines 95, 175) that never returns: nothing in
\* upload_document bounds the time they take, the call stays where it is.
UploadHang(w) ==
    /\ call[w].pc \in {"write", "registry"}
    /\ call' = [call EXCEPT ![w].pc = "hung"]
    /\ UNCHANGED <<folders, now, docs, files, uploads, deleted, ops>>

\* Lines 161-174: the fields the reuse branch assigns.
ReuseAssign(d, req) ==
    [d EXCEPT !.document_name = req.filename,
              !.original_filename = req.filename,
              !.file_key = _generate_file_key(req.user_id, req.filename),
              !.file_size = Len(req.content),
              !.file_type = _get_mime_type(req.filename),
              !.file_extension = _get_file_extension(req.filename),
              !.user_id = req.user_id,
              !.upload_path = _get_upload_path(_generate_file_key(req.user_id, req.filename)),
              !.is_public = req.is_public,
              !.status = "completed",
              !.processed_at = now,
              !.updated_at = now]

\* Faulty variant: a failing commit leaves the assigned fields behind, without
\* the status
UploadReuse_HalfUpdate(w, db_ok) ==
    LET row == ReuseAssign(docs[call[w].existing], call[w].req)
    IN  IF db_ok
        THEN /\ docs' = [x \in DOMAIN docs \cup {row.document_id} |->
                            IF x = row.document_id THEN row ELSE docs[x]]
             /\ call' = [call EXCEPT ![w].ret = <<DocumentView(row, "absent")>>,
                                     ![w].pc = IF call[w].job = <<>> THEN "done"
                                               ELSE "finish"]
        ELSE /\ docs' = [x \in DOMAIN docs \cup {row.document_id} |->
                            IF x = row.document_id
                            THEN [row EXCEPT !.status = docs[x].status]
                            ELSE docs[x]]
             /\ call' = [call EXCEPT ![w].exc = "DOCUMENT_UPLOAD_ERROR",
                                     ![w].pc = IF call[w].job = <<>> THEN "done"
                                               ELSE "finish"]

\* Lines 159-175: the reuse branch and its commit; the UPDATE of a row that is
\* no longer there under the id makes the commit raise.
UploadReuse(w, db_ok) ==
    IF db_ok /\ call[w].existing \in DOMAIN docs
    THEN LET row == ReuseAssign(docs[call[w].existing], call[w].req)
         IN  /\ docs' = Put(docs, row.document_id, row)
             /\ call' = Return(w, DocumentView(row, NoKey))
    ELSE /\ docs' = docs
         /\ call' = Raise(w, MsgUploadError)

\* Lines 176-193: create_document(..., status='completed', ...).
UploadCreate(w, db_ok) ==
    LET req == call[w].req
        row == NewDocument(call[w].document_id, req,
                           _calculate_file_hash(req.content), "completed")
        res == create_document(row, db_ok)
    IN  /\ docs' = res[1]
        /\ call' = IF res[2] THEN Raise(w, MsgDatabaseError)
                             ELSE [call EXCEPT ![w].pc = "stamp"]

\* Lines 158-193: the registry write after the file write.
UploadRegistry(w) ==
    /\ call[w].pc = "registry"
    /\ \E db_ok \in BOOLEAN :
          IF call[w].existing # NoDoc
               /\ call[w].existing_status \in {"failed", "processing"}
          THEN UploadReuse(w, db_ok)
          ELSE UploadCreate(w, db_ok)
    /\ UNCHANGED <<folders, now, files, uploads, deleted, ops>>

\* Lines 194-220: processed_at, the second commit, and the returned view.
UploadStamp(w) ==
    /\ call[w].pc = "stamp"
    /\ \E db_ok \in BOOLEAN :
          IF db_ok /\ call[w].document_id \in DOMAIN docs
          THEN /\ docs' = [docs EXCEPT ![call[w].document_id].processed_at = now]
               /\ call' = Return(w, DocumentView(docs'[call[w].document_id], NoKey))
          ELSE /\ docs' = docs
               /\ call' = Raise(w, MsgUploadError)
    /\ UNCHANGED <<folders, now, files, uploads, deleted, ops>>

\* A direct call of DocumentService.upload_document.
UploadDocument(w, req) ==
    /\ FreeSlot(w)
    /\ req.permissions # <<>> \/ req.document_type # "common"
    /\ call' = [call EXCEPT ![w].req = req, ![w].via = "upload_document",
                            ![w].pc = "lookup"]
    /\ UNCHANGED <<folders, now, docs, files, uploads, deleted, ops>>

\* ------------------------------------------------ start_upload and its worker

\* DocumentService.start_upload (called by the router's upload_document_request):
\* the size is validated before anything is stored; an accepted submission gets
\* its DOCUMENT_UPLOADS row (create_upload) and a background worker that runs
\* upload_document with the default permissions and document type.
\* str(uuid.uuid4()): an id no other upload has
UploadId(w) == <<"upload", w>>

StartUpload(w, req) ==
    /\ FreeSlot(w)
    /\ req.permissions = <<>> /\ req.document_type = "common"
    /\ IF FileTooLarge(req.content)
       THEN /\ call' = [call EXCEPT ![w].req = req, ![w].via = "start_upload",
                                    ![w].exc = MsgTooLarge, ![w].pc = "rejected"]
            /\ uploads' = uploads
       ELSE /\ call' = [call EXCEPT ![w].req = req, ![w].via = "start_upload",
                                    ![w].job = UploadId(w), ![w].pc = "lookup"]
            /\ uploads' = Put(uploads, UploadId(w), NewUpload(UploadId(w), req))
    /\ UNCHANGED <<folders, now, docs, files, deleted, ops>>

\* The end of the worker: the outcome of upload_document is written to the
\* upload row with update_upload_status, whose commit may raise (the row is
\* then rolled back to what it was).
WorkerFinish(w) ==
    /\ call[w].pc = "finish"
    /\ \E db_ok \in BOOLEAN :
          uploads' = IF ~db_ok THEN uploads
                     ELSE IF call[w].exc = None
                     THEN update_upload_status(call[w].job, "completed", None, call[w].ret)
                     ELSE update_upload_status(call[w].job, "failed", call[w].exc, Nothing)
    /\ call' = [call EXCEPT ![w].pc = "done"]
    /\ UNCHANGED <<folders, now, docs, files, deleted, ops>>

\* ------------------------------------------------- other service operations

MsgNotFound == "DOCUMENT_NOT_FOUND"

\* DocumentCRUD.get_document: the row under the id, deleted or not, or None.
crud_get_document(document_id) ==
    IF document_id \in DOMAIN docs THEN <<docs[document_id]>> ELSE Nothing

\* `not document or document.user_id != user_id`: the check every operation
\* addressed to a Document by id begins with
NotOwned(document_id, user_id) ==
    LET document == crud_get_document(document_id)
    IN  document = Nothing \/ document[1].user_id # user_id

\* What an operation of the service leaves behind and what it raises.
Outcome(d, f, del, exc, ret) ==
    [docs |-> d, files |-> f, deleted |-> del, exc |-> exc, ret |-> ret]
Refused == Outcome(docs, files, deleted, MsgNotFound, Nothing)

\* Faulty variant: a deleted Document is still handed out
get_document_Deleted(document_id, user_id) ==
    IF NotOwned(document_id, user_id)
    THEN Outcome(docs, files, deleted, "DOCUMENT_NOT_FOUND", <<>>)
    ELSE Outcome(docs, files, deleted, "None",
                 <<DocumentView(docs[document_id], "absent")>>)

\* DocumentService.get_document (lines 227-264)
get_document(document_id, user_id) ==
    IF NotOwned(document_id, user_id) \/ docs[document_id].is_deleted
    THEN Refused
    ELSE Outcome(docs, files, deleted, None,
                 <<DocumentView(docs[document_id], NoKey)>>)

\* DocumentService.download_document (lines 339-361)
download_document(document_id, user_id) ==
    IF NotOwned(document_id, user_id) \/ docs[document_id].is_deleted
    THEN Refused
    ELSE IF docs[document_id].upload_path \notin DOMAIN files
    THEN Refused
    ELSE Outcome(docs, files, deleted, None,
                 <<files[docs[document_id].upload_path],
                   docs[document_id].original_filename,
                   docs[document_id].file_type>>)

\* DocumentCRUD.get_user_documents(user_id) as the service calls it (lines
\* 109-123; the Documents of the pipeline are in no folder): the ids listed.
get_user_documents(user_id) ==
    {d \in DOMAIN docs : docs[d].user_id = user_id /\ ~docs[d].is_deleted}

\* str.contains for the names and the search terms of the model
SearchTerms == {"", "a", "txt", "TXT", "exe"}
Contains(name, term) ==
    \/ term = ""
    \/ name = "a.txt" /\ term \in {"a", "txt"}
    \/ name = "b.TXT" /\ term = "TXT"
    \/ name = "x.exe" /\ term = "exe"

\* DocumentCRUD.search_documents (lines 136-149): the ids found.
search_documents(user_id, search_term) ==
    {d \in DOMAIN docs :
        /\ docs[d].user_id = user_id
        /\ ~docs[d].is_deleted
        /\ \/ Contains(docs[d].document_name, search_term)
           \/ Contains(docs[d].original_filename, search_term)}

\* Faulty variant: the owner is not compared
delete_document_AnyUser(document_id, user_id) ==
    IF document_id \notin DOMAIN docs
    THEN Outcome(docs, files, deleted, "DOCUMENT_NOT_FOUND", <<>>)
    ELSE LET res == crud_delete_document(document_id)
             upload_path == docs[document_id].upload_path
         IN  Outcome(res[1],
                     IF res[2] /\ upload_path \in DOMAIN files
                     THEN [x \in DOMAIN files \ {upload_path} |-> files[x]]
                     ELSE files,
                     IF res[2] THEN deleted \cup {document_id} ELSE deleted,
                     "None", <<>>)

\* DocumentService.delete_document (lines 363-386): DOCUMENT_NOT_FOUND,
\* changing nothing, for a missing document or another user's; the soft delete
\* and then the unlink of the stored file.
delete_document(document_id, user_id) ==
    IF NotOwned(document_id, user_id)
    THEN Refused
    ELSE LET res == crud_delete_document(document_id)
             upload_path == docs[document_id].upload_path
         IN  Outcome(res[1],
                     IF res[2] /\ upload_path \in DOMAIN files
                     THEN Drop(files, upload_path) ELSE files,
                     IF res[2] THEN deleted \cup {document_id} ELSE deleted,
                     None, Nothing)

\* DocumentService.update_document_processing_status (lines 388-414), without
\* processing_info.
update_document_processing_status(document_id, user_id, status) ==
    IF NotOwned(document_id, user_id)
    THEN Refused
    ELSE Outcome(update_document_status(document_id, status), files, deleted,
                 None, Nothing)

\* DocumentCRUD.update_document_permissions / update_document_type: the column
\* is written.
crud_update_document_permissions(document_id, permissions) ==
    [docs EXCEPT ![document_id].permissions = permissions]
crud_update_document_type(document_id, document_type) ==
    [docs EXCEPT ![document_id].document_type = document_type]

\* DocumentService.update_document_permissions (lines 489-502)
update_document_permissions(document_id, user_id, permissions) ==
    IF NotOwned(document_id, user_id)
    THEN Refused
    ELSE Outcome(crud_update_document_permissions(document_id, permissions),
                 files, deleted, None, Nothing)

\* DocumentService.update_document_type (lines 611-624)
update_document_type(document_id, user_id, document_type) ==
    IF NotOwned(document_id, user_id)
    THEN Refused
    ELSE Outcome(crud_update_document_type(document_id, document_type),
                 files, deleted, None, Nothing)

\* A call of one of these operations: what it leaves behind is the state; a
\* call that raised is not counted.
Serve(out) ==
    /\ ops < MaxOps
    /\ docs' = out.docs
    /\ files' = out.files
    /\ deleted' = out.deleted
    /\ ops' = IF out.exc = None THEN ops + 1 ELSE ops
    /\ UNCHANGED <<folders, now, uploads, call>>

DeleteDocument(document_id, user_id) ==
    Serve(delete_document(document_id, user_id))

UpdateDocumentProcessingStatus(document_id, user_id, status) ==
    Serve(update_document_processing_status(document_id, user_id, status))

UpdateDocumentPermissions(document_id, user_id, permissions) ==
    Serve(update_document_permissions(document_id, user_id, permissions))

UpdateDocumentType(document_id, user_id, document_type) ==
    Serve(update_document_type(document_id, user_id, document_type))

\* The maintenance purge: DocumentCRUD.cleanup_old_uploads(days).
Days == {0 - 1, 0, 1}

CleanupOldUploads(days) ==
    /\ ops < MaxOps
    /\ uploads # <<>>
    /\ uploads' = cleanup_old_uploads(days)
    /\ ops' = ops + 1
    /\ UNCHANGED <<folders, now, docs, files, call, deleted>>

\* The clock moves on.
Tick ==
    /\ now < MaxTime
    /\ now' = now + 1
    /\ UNCHANGED <<folders, docs, files, uploads, call, deleted, ops>>

UploadStep(w) ==
    \/ UploadLookup(w)
    \/ UploadMark(w)
    \/ UploadWrite(w)
    \/ UploadRegistry(w)
    \/ UploadStamp(w)
    \/ WorkerFinish(w)

Next ==
    \/ \E w \in Calls, req \in Requests : StartUpload(w, req)
    \/ \E w \in Calls, req \in Requests : UploadDocument(w, req)
    \/ \E w \in Calls : UploadStep(w)
    \/ \E w \in Calls : UploadHang(w)
    \/ \E d \in DOMAIN docs, u \in Users : DeleteDocument(d, u)
    \/ \E d \in DOMAIN docs, u \in Users, st \in Statuses :
          UpdateDocumentProcessingStatus(d, u, st)
    \/ \E d \in DOMAIN docs, u \in Users :
          UpdateDocumentPermissions(d, u, <<"write">>)
    \/ \E d \in DOMAIN docs, u \in Users :
          UpdateDocumentType(d, u, "type2")
    \/ \E days \in Days : CleanupOldUploads(days)
    \/ Tick

Spec == Init /\ [][Next]_vars

\* Clients of DocumentCRUD calling update_upload_status themselves; status is
\* any str, "cancelled" stands for the ones that are no upload status.
StatusArgs == Statuses \cup {"cancelled"}

UpdateUploadStatus(upload_id, status, error_message) ==
    /\ ops < MaxOps
    /\ uploads' = update_upload_status(upload_id, status, error_message, Nothing)
    /\ ops' = ops + 1
    /\ UNCHANGED <<folders, now, docs, files, call, deleted>>

\* Clients of DocumentCRUD calling update_document(document_id, **kwargs) with
\* one keyword: a status, a new document_id (one that is free or the id of the
\* first Document of the run), or a name that is no column.
UpdateKeys == {"status", "document_id", "no_such_column"}
UpdateValues(key) ==
    CASE key = "status" -> {"archived"}
      [] key = "document_id" -> {<<"doc", 0, 9>>, <<"doc", 0, 0>>}
      [] OTHER -> {"x"}

UpdateDocument(document_id, key, value) ==
    /\ ops < MaxOps
    /\ docs' = update_document(document_id, key, value)
    /\ ops' = ops + 1
    /\ UNCHANGED <<folders, now, files, uploads, call, deleted>>

\* Clients of DocumentCRUD calling delete_upload.
DeleteUpload(upload_id) ==
    /\ ops < MaxOps
    /\ uploads' = delete_upload(upload_id)
    /\ ops' = ops + 1
    /\ UNCHANGED <<folders, now, docs, files, call, deleted>>

NextStore ==
    \/ Next
    \/ \E u \in DOMAIN uploads, st \in StatusArgs, msg \in {None, MsgUploadError} :
          UpdateUploadStatus(u, st, msg)
    \/ \E u \in DOMAIN uploads : DeleteUpload(u)
    \/ \E d \in DOMAIN docs, key \in UpdateKeys :
          \E value \in UpdateValues(key) : UpdateDocument(d, key, value)
    \/ \E d \in DOMAIN docs, u \in Users :
          UpdateDocumentProcessingStatus(d, u, "archived")

\* The pipeline together with direct callers of the upload-status table.
StoreSpec == Init /\ [][NextStore]_vars

\* call w is inside upload_document, past the lookup
InBody(w) == call[w].pc \in {"mark", "write", "registry", "stamp", "hung"}

\* One upload_document at a time: a call starts with its validation and lookup
\* only when no other call is inside upload_document.
Sequential ==
    \A w \in Calls :
       (call[w].pc = "lookup" /\ call'[w].pc # "lookup")
       => \A v \in Calls \ {w} : ~InBody(v)

SeqNext == NextStore /\ Sequential

\* The callers of StoreSpec when the uploads are run one after the other.
SeqSpec == Init /\ [][SeqNext]_vars

\* A deletion that leaves the budget of operations to the calls after it.
MaxDeletes == 1

DeleteDocumentFirst(document_id, user_id) ==
    LET out == delete_document(document_id, user_id)
    IN  /\ Cardinality(deleted) < MaxDeletes
        /\ docs' = out.docs
        /\ files' = out.files
        /\ deleted' = out.deleted
        /\ UNCHANGED <<folders, now, uploads, call, ops>>

ServiceNext ==
    \/ Next
    \/ \E d \in DOMAIN docs, u \in Users : DeleteDocumentFirst(d, u)

\* The service with operations on a Document after its deletion.
ServiceSpec == Init /\ [][ServiceNext]_vars

\* Every thread that runs upload_document or the worker's last write keeps
\* running until it is done.
FairSpec == Spec /\ \A w \in Calls : WF_vars(UploadStep(w))

\* The chunks the loop of _calculate_file_hash hands to hash_md5.update, in
\* order, for a chunk size.
RECURSIVE ChunksFrom(_, _, _, _)
ChunksFrom(file_content, i, fed, size) ==
    IF i >= Len(file_content) THEN fed
    ELSE ChunksFrom(file_content, i + size,
                    Append(fed, Slice(file_content, i, i + size)), size)

\* ------------------------------------------------- folders (DocumentCRUD)

FolderIds == {"f1", "f2"}

\* the row create_folder adds (document_crud.py 25-32)
NewFolder(folder_id, user_id, parent_folder_id) ==
    [folder_id |-> folder_id, folder_name |-> folder_id,
     parent_folder_id |-> parent_folder_id, user_id |-> user_id,
     create_dt |-> now, is_active |-> TRUE]

\* DocumentCRUD.create_folder: db.add + db.commit; FOLDER_ID is the primary key
\* and PARENT_FOLDER_ID a foreign key, a commit that breaks one of them or that
\* the database refuses raises and is rolled back.  The table after the call.
create_folder(folder_id, user_id, parent_folder_id, db_ok) ==
    IF /\ db_ok
       /\ folder_id \notin DOMAIN folders
       /\ parent_folder_id = None \/ parent_folder_id \in DOMAIN folders
    THEN Put(folders, folder_id, NewFolder(folder_id, user_id, parent_folder_id))
    ELSE folders

\* DocumentCRUD.get_documents_by_folder: the ids of the folder's Documents
\* that are not deleted.
get_documents_by_folder(folder_id) ==
    {d \in DOMAIN docs : docs[d].folder_id = folder_id /\ ~docs[d].is_deleted}

\* DocumentCRUD.delete_folder: the folder is made inactive and the Documents
\* now in it are soft-deleted, in one commit.  The result is
\* <<folders, documents>>.
delete_folder(folder_id, db_ok) ==
    IF db_ok /\ folder_id \in DOMAIN folders
    THEN <<[folders EXCEPT ![folder_id].is_active = FALSE],
           [d \in DOMAIN docs |->
               IF d \in get_documents_by_folder(folder_id)
               THEN [docs[d] EXCEPT !.is_deleted = TRUE] ELSE docs[d]]>>
    ELSE <<folders, docs>>

CreateFolder(folder_id, user_id, parent_folder_id) ==
    /\ \E db_ok \in BOOLEAN :
          folders' = create_folder(folder_id, user_id, parent_folder_id, db_ok)
    /\ UNCHANGED <<now, docs, files, uploads, call, deleted, ops>>

\* DocumentCRUD.create_document with a folder_id; FOLDER_ID is a foreign key
\* to the folder's row, which a deleted folder still has.
CreateDocument(document_id, req, folder_id) ==
    /\ \E db_ok \in BOOLEAN :
          LET row == [NewDocument(document_id, req,
                                  _calculate_file_hash(req.content), "completed")
                         EXCEPT !.folder_id = folder_id]
              fk_ok == folder_id = None \/ folder_id \in DOMAIN folders
          IN  docs' = create_document(row, db_ok /\ fk_ok)[1]
    /\ UNCHANGED <<now, folders, files, uploads, call, deleted, ops>>

\* DocumentCRUD.delete_document
CrudDeleteDocument(document_id) ==
    /\ docs' = crud_delete_document(document_id)[1]
    /\ UNCHANGED <<now, folders, files, uploads, call, deleted, ops>>

DeleteFolder(folder_id) ==
    /\ \E db_ok \in BOOLEAN :
          LET res == delete_folder(folder_id, db_ok)
          IN  folders' = res[1] /\ docs' = res[2]
    /\ UNCHANGED <<now, files, uploads, call, deleted, ops>>

\* the document ids given to create_document
FolderDocIds == {NewDocumentId(0, 0), NewDocumentId(1, 0)}

FolderNext ==
    \/ \E f \in FolderIds, u \in Users, parent \in FolderIds \cup {None} :
          CreateFolder(f, u, parent)
    \/ \E d \in FolderDocIds, f \in FolderIds \cup {None} :
          CreateDocument(d, Request("u1", "a.txt", <<0>>, "common"), f)
    \/ \E d \in DOMAIN docs : CrudDeleteDocument(d)
    \/ \E f \in FolderIds : DeleteFolder(f)

\* Folders and Documents through DocumentCRUD.
FolderSpec == Init /\ [][FolderNext]_vars

\* ------------------------------------------------- the fingerprint on its own

\* the byte sequences of length 0..MaxLen and the chunk sizes they are cut by
ByteSeqs == UNION {[1..n -> {0, 1}] : n \in 0..MaxLen}
ChunkSizes == 1..(MaxLen + 1)

\* Every call holds some bytes; nothing is stored.
HashInit ==
    /\ now = 0
    /\ docs = <<>>
    /\ files = <<>>
    /\ uploads = <<>>
    /\ call \in [Calls -> {[IdleCall EXCEPT !.req.content = b] : b \in ByteSeqs}]
    /\ deleted = {}
    /\ ops = 0
    /\ folders = <<>>

\* file_hash = self._calculate_file_hash(file_content) (line 102) on its own.
HashCall(w) ==
    /\ call[w].pc = "idle"
    /\ call' = [call EXCEPT
                   ![w].pc = "hashed",
                   ![w].ret = <<[file_hash |-> _calculate_file_hash(call[w].req.content)]>>]
    /\ UNCHANGED <<folders, now, docs, files, uploads, deleted, ops>>

HashNext == \E w \in Calls : HashCall(w)

HashSpec == HashInit /\ [][HashNext]_vars

\* ================================================================== claims

Terminal == {"completed", "failed"}

\* the completed, not deleted documents with fingerprint h
CompletedWith(h) ==
    {d \in DOMAIN docs : /\ docs[d].file_hash = h
                         /\ docs[d].status = "completed"
                         /\ ~docs[d].is_deleted}

Hashes == {_calculate_file_hash(c) : c \in Contents}

\* call w has returned a view (upload_document did not raise)
Returned(w) == call[w].pc \in {"finish", "done"} /\ call[w].ret # Nothing

\* C1: deduplication invariant.  For every content hash at most one Document
\* that is not deleted has that file_hash and status 'completed'.
C1_DedupInvariant ==
    \A h \in Hashes : Cardinality(CompletedWith(h)) <= 1

\* C2: N >= 2 uploads of identical bytes (no deletion or status update in
\* between) that all return: the registry holds exactly one completed Document
\* with the fingerprint, one upload created or reused it and every other one
\* returned it as a duplicate hit.
C2_ConcurrentUploadsDedup ==
    \A h \in Hashes :
       LET same == {w \in Calls : /\ call[w].pc # "idle"
                                  /\ _calculate_file_hash(call[w].req.content) = h}
       IN  (/\ ops = 0
            /\ Cardinality(same) >= 2
            /\ \A w \in same : call[w].pc = "done" /\ call[w].ret # Nothing)
           => /\ Cardinality(CompletedWith(h)) = 1
              /\ \E win \in same :
                    /\ call[win].ret[1].is_duplicate = NoKey
                    /\ \A w \in same \ {win} :
                          /\ call[w].ret[1].is_duplicate = IsDup
                          /\ call[w].ret[1].document_id = call[win].ret[1].document_id

\* C3: once a job is terminal, no later step (a poll sees the table as it is)
\* changes its status, error_message, result_data or end_time.
C3_TerminalJobNeverMutated ==
    [][\A u \in DOMAIN uploads :
          (uploads[u].status \in Terminal /\ u \in DOMAIN uploads')
          => /\ uploads'[u].status = uploads[u].status
             /\ uploads'[u].error_message = uploads[u].error_message
             /\ uploads'[u].result_data = uploads[u].result_data
             /\ uploads'[u].end_time = uploads[u].end_time]_vars

\* C4: once the worker of a job has begun, the job eventually is 'completed'
\* or 'failed'.
C4_JobEventuallyTerminal ==
    \A w \in Calls :
       (call[w].job # NoJob)
          ~> (call[w].job \in DOMAIN uploads /\ uploads[call[w].job].status \in Terminal)

\* the step of call w that returns from the lookup: the duplicate hit
IsDuplicateHitStep(w) ==
    call[w].pc = "lookup" /\ call'[w].ret # Nothing

\* C5: a duplicate hit returns the view of a completed, not deleted Document
\* with the uploaded bytes' fingerprint and changes no Document and no file.
C5_DuplicateHitChangesNothing ==
    [][\A w \in Calls :
          IsDuplicateHitStep(w)
          => LET view == call'[w].ret[1]
                 d == view.document_id
             IN  /\ docs' = docs
                 /\ files' = files
                 /\ d \in DOMAIN docs
                 /\ docs[d].status = "completed"
                 /\ docs[d].file_hash = _calculate_file_hash(call[w].req.content)
                 /\ view = DocumentView(docs[d], IsDup)]_vars

C5_Witness ==
    \E w \in Calls :
       /\ Returned(w)
       /\ call[w].ret[1].is_duplicate = IsDup

IsReuseStep(w) ==
    call[w].pc = "registry" /\ call[w].existing # NoDoc /\ call'[w].ret # Nothing

\* C7: a successful reuse creates no Document, returns the existing
\* document_id, sets the status to 'completed' and leaves every mutable field
\* with the new attempt's value.
C7_ReuseOverwritesEveryField ==
    [][\A w \in Calls :
          IsReuseStep(w)
          => LET req == call[w].req
                 id == call[w].existing
                 d == docs'[id]
             IN  /\ DOMAIN docs' = DOMAIN docs
                 /\ call'[w].ret[1].document_id = id
                 /\ d.status = "completed"
                 /\ d.document_name = req.filename
                 /\ d.original_filename = req.filename
                 /\ d.file_size = Len(req.content)
                 /\ d.file_type = _get_mime_type(req.filename)
                 /\ d.file_extension = _get_file_extension(req.filename)
                 /\ d.file_key = _generate_file_key(req.user_id, req.filename)
                 /\ d.upload_path = _get_upload_path(d.file_key)
                 /\ d.is_public = req.is_public
                 /\ d.permissions = req.permissions
                 /\ d.document_type = req.document_type]_vars

\* the step of call w in which create_document commits the new row
IsCreateStep(w) ==
    call[w].pc = "registry" /\ call'[w].pc = "stamp"

\* C8: a fresh create adds exactly one Document, 'completed', with the
\* fingerprint as file_hash and with a document_id no Document had; the
\* Documents that existed are unchanged, also by the commit of processed_at
\* that ends the upload.
C8_FreshCreateAddsOneDocument ==
    [][\A w \in Calls :
          /\ IsCreateStep(w)
             => LET id == call[w].document_id
                IN  /\ id \notin DOMAIN docs
                    /\ DOMAIN docs' = DOMAIN docs \cup {id}
                    /\ docs'[id].status = "completed"
                    /\ docs'[id].file_hash = _calculate_file_hash(call[w].req.content)
                    /\ docs'[id].document_id = id
                    /\ \A o \in DOMAIN docs : docs'[o] = docs[o]
          /\ (call[w].pc = "stamp" /\ call'[w].pc # "stamp")
             => /\ DOMAIN docs' = DOMAIN docs
                /\ \A o \in DOMAIN docs \ {call[w].document_id} : docs'[o] = docs[o]
                /\ call'[w].ret # Nothing
                   => call'[w].ret[1].document_id = call[w].document_id]_vars

\* two contents whose digests share the leading digits were uploaded in the
\* same second: one upload created its Document, the other one has ended
C8_Witness ==
    \E w \in Calls, v \in Calls :
       /\ w # v
       /\ Returned(w) /\ call[w].ret[1].is_duplicate = NoKey
       /\ call[w].existing = NoDoc
       /\ call[v].pc \in {"finish", "done"}
       /\ call[v].document_id = call[w].document_id
       /\ call[v].req.content # call[w].req.content

UploadIds == {UploadId(w) : w \in Calls}
UnknownUploadId == <<"upload", 0>>

\* what a caller reads off a response of get_upload_result, without the table
SituationOf(resp) ==
    IF resp = Nothing THEN "not found"
    ELSE IF "message" \in DOMAIN resp[1] THEN resp[1].status
    ELSE "completed"

C12_CleanupKeepsProcessingJobs ==
    [][(\E days \in Days : CleanupOldUploads(days))
          => \A u \in DOMAIN uploads :
                uploads[u].status = "processing"
                => (u \in DOMAIN uploads' /\ uploads'[u] = uploads[u])]_vars

\* a purge has removed the terminal job of one call while the job of another
\* call, created before the cutoff as well, is still 'processing'
C12_Witness ==
    \E w \in Calls, v \in Calls :
       /\ call[w].job # NoJob /\ call[w].job \notin DOMAIN uploads
       /\ call[v].job # NoJob /\ call[v].job \in DOMAIN uploads
       /\ uploads[call[v].job].status = "processing"
       /\ uploads[call[v].job].create_dt < now
       /\ ops = 1

C14_CompletedHasStoredFile ==
    \A d \in DOMAIN docs :
       (docs[d].status = "completed" /\ ~docs[d].is_deleted)
       => docs[d].upload_path \in DOMAIN files

\* C15: when the file write has succeeded and a registry write of the attempt
\* (create_document, the commit of the reuse, the commit of processed_at) then
\* fails, upload_document raises, the Document of the attempt is not
\* 'completed' and the worker does not write 'completed' to the job.
C15_RegistryFailureNeverCompleted ==
    [][\A w \in Calls :
          /\ (call[w].pc = "registry" /\ call'[w].pc \notin {"registry", "stamp", "hung"}
                /\ call'[w].ret = Nothing)
             => /\ call'[w].exc # None
                /\ docs' = docs
          /\ (call[w].pc = "stamp" /\ call'[w].pc # "stamp" /\ call'[w].ret = Nothing)
             => /\ call'[w].exc # None
                /\ docs'[call[w].document_id].status # "completed"
          /\ (call[w].pc = "finish" /\ call[w].exc # None
                /\ call[w].job \in DOMAIN uploads')
             => uploads'[call[w].job].status # "completed"]_vars

\* the step of call w in which the commit of the reuse branch fails
IsFailedReuseStep(w) ==
    call[w].pc = "registry" /\ call[w].existing # NoDoc /\ call'[w].exc # None

\* C16: when the commit of the reuse branch fails, upload_document raises and
\* no Document row changes: the reused Document keeps the status ('processing')
\* and the fields it had, and the rest of the call (the worker's write of the
\* job) commits nothing to the Documents either.
C16_FailedReuseCommitChangesNothing ==
    [][\A w \in Calls :
          /\ IsFailedReuseStep(w)
             => /\ docs' = docs
                /\ call'[w].ret = Nothing
                /\ docs[call[w].existing].status \in {"processing", "failed"}
                   => docs'[call[w].existing].status \in {"processing", "failed"}
          /\ (call[w].pc = "finish" /\ call'[w].pc = "done")
             => docs' = docs]_vars

\* the upload of u2 has failed at the commit of the reuse of u1's Document,
\* which is 'processing' with u1's fields
C16_Witness ==
    \E w \in Calls :
       /\ call[w].pc = "done"
       /\ call[w].existing # NoDoc
       /\ call[w].exc = MsgUploadError
       /\ call[w].req.user_id = "u2"
       /\ call[w].existing \in DOMAIN docs
       /\ docs[call[w].existing].status = "processing"
       /\ docs[call[w].existing].user_id = "u1"
       /\ docs[call[w].existing].original_filename = "a.txt"
       /\ _get_upload_path(<<"u2", "b.TXT">>) \in DOMAIN files

\* C17: a reuse leaves the owner of the reused Document as it was.
C17_ReuseKeepsOwner ==
    [][\A w \in Calls :
          IsReuseStep(w)
          => docs'[call[w].existing].user_id = docs[call[w].existing].user_id]_vars

\* C18: a job has a stored result exactly when its status is 'completed' and
\* an error_message exactly when its status is 'failed'.
C18_JobFieldsAgreeWithStatus ==
    \A u \in DOMAIN uploads :
       /\ uploads[u].result_data # Nothing <=> uploads[u].status = "completed"
       /\ uploads[u].error_message # None <=> uploads[u].status = "failed"

\* C19: after every step a job's end_time is set exactly when its status is
\* 'completed' or 'failed', and an end_time that is set does not change.
C19_EndTimeSetIffTerminal ==
    [][\A u \in DOMAIN uploads' :
          /\ uploads'[u].end_time # NoTime <=> uploads'[u].status \in Terminal
          /\ (u \in DOMAIN uploads /\ uploads[u].end_time # NoTime)
             => uploads'[u].end_time = uploads[u].end_time]_vars

\* C20: the status of every job is 'processing', 'completed' or 'failed', and
\* get_upload_result never answers with its 'unknown' branch.
C20_JobStatusInDomain ==
    \A u \in DOMAIN uploads :
       /\ uploads[u].status \in Statuses
       /\ SituationOf(get_upload_result(u)) # "unknown"

\* C21: the status of every Document is 'processing', 'completed' or 'failed'.
C21_DocumentStatusInDomain ==
    \A d \in DOMAIN docs : docs[d].status \in Statuses

\* C23: Documents are stored under their document_id, one row per id, and no
\* step changes the document_id of a Document that exists.
C23_DocumentIdUniqueAndStable ==
    [][\A d \in DOMAIN docs :
          /\ docs[d].document_id = d
          /\ d \in DOMAIN docs'
          /\ docs'[d].document_id = d]_vars

\* C22: the processed_at of every Document is set exactly when its status is
\* 'completed'.
C22_ProcessedAtIffCompleted ==
    \A d \in DOMAIN docs :
       docs[d].processed_at # NoTime <=> docs[d].status = "completed"

\* the other calls that have returned a view for the bytes of call w
ReturnedSameBytes(w) ==
    {v \in Calls \ {w} :
        /\ Returned(v)
        /\ _calculate_file_hash(call[v].req.content)
              = _calculate_file_hash(call[w].req.content)}

\* the other calls that are inside upload_document with the bytes of call w
InBodySameBytes(w) ==
    {v \in Calls \ {w} :
        /\ call[v].pc \in {"lookup", "mark", "write", "registry", "stamp"}
        /\ _calculate_file_hash(call[v].req.content)
              = _calculate_file_hash(call[w].req.content)}

\* C24: with no deletion or update in between and no upload of the same bytes
\* running beside it, the first upload of some bytes that returns has status
\* 'completed' and is not flagged is_duplicate; an
\* upload_document of the same bytes that begins after one has returned is a
\* duplicate hit on the same document_id and changes no Document.
C24_ResubmissionIdempotent ==
    [][\A w \in Calls :
          (ops = 0 /\ ValidationError(call[w].req) = None)
          => /\ (call[w].ret = Nothing /\ call'[w].ret # Nothing
                   /\ ReturnedSameBytes(w) = {} /\ InBodySameBytes(w) = {})
                => /\ call'[w].ret[1].status = "completed"
                   /\ call'[w].ret[1].is_duplicate # IsDup
             /\ (call[w].pc = "lookup" /\ call'[w].pc # "lookup"
                   /\ ReturnedSameBytes(w) # {})
                => /\ call'[w].ret # Nothing
                   /\ call'[w].ret[1].is_duplicate = IsDup
                   /\ \A v \in ReturnedSameBytes(w) :
                         call'[w].ret[1].document_id = call[v].ret[1].document_id
                   /\ docs' = docs]_vars

\* C25: the processing_time of get_upload_status is there for every job, is
\* end_time - start_time for a 'completed' or 'failed' job and now - start_time
\* for a 'processing' job, and is never negative.
C25_ElapsedFollowsStatus ==
    \A u \in DOMAIN uploads :
       LET r == get_upload_status(u)
       IN  /\ r # Nothing
           /\ "processing_time" \in DOMAIN r[1]
           /\ r[1].processing_time >= 0
           /\ uploads[u].status \in Terminal
              => r[1].processing_time = uploads[u].end_time - uploads[u].start_time
           /\ uploads[u].status = "processing"
              => r[1].processing_time = now - uploads[u].start_time

\* C29: delete_upload of a job that is 'processing' removes nothing, so the
\* worker's update_upload_status still finds the job.
C29_DeleteUploadKeepsProcessingJob ==
    [][\A u \in DOMAIN uploads :
          (DeleteUpload(u) /\ uploads[u].status = "processing")
          => (u \in DOMAIN uploads' /\ uploads'[u] = uploads[u])]_vars

\* C28: cleanup_old_uploads(days) removes exactly the jobs created before
\* now - days that are 'completed' or 'failed', returns how many it removed,
\* and changes no other job, no Document and no file.
C28_CleanupRemovesExactlyOldTerminalJobs ==
    [][\A days \in Days :
          CleanupOldUploads(days)
          => LET gone == {u \in DOMAIN uploads :
                             /\ uploads[u].create_dt < now - days
                             /\ uploads[u].status \in Terminal}
             IN  /\ DOMAIN uploads' = DOMAIN uploads \ gone
                 /\ \A u \in DOMAIN uploads' : uploads'[u] = uploads[u]
                 /\ cleanup_old_uploads_count(days)
                       = Cardinality(DOMAIN uploads) - Cardinality(DOMAIN uploads')
                 /\ docs' = docs
                 /\ files' = files
                 /\ call' = call]_vars

\* a purge has removed the terminal job created at second 0 and has kept the
\* terminal job created at second 1, the cutoff
C28_Witness ==
    \E w \in Calls, v \in Calls :
       /\ ops = 1
       /\ call[w].job # NoJob /\ call[w].job \notin DOMAIN uploads
       /\ call[v].job # NoJob /\ call[v].job \in DOMAIN uploads
       /\ uploads[call[v].job].status \in Terminal
       /\ uploads[call[v].job].create_dt = now

\* C27: a worker whose file write or registry write does not return has its
\* job set to 'failed' in the end.
C27_HungWorkerFailsJob ==
    \A w \in Calls :
       (call[w].pc = "hung" /\ call[w].job # NoJob)
          ~> (call[w].job \in DOMAIN uploads
                 /\ uploads[call[w].job].status = "failed")

\* C26: the fingerprint of a byte sequence is the same when it is computed
\* again, equals the digest of the sequence fed as one chunk, and equals the
\* digest obtained with every other chunk size.
C26_HashIndependentOfChunking ==
    \A w \in Calls :
       call[w].pc = "hashed"
       => LET b == call[w].req.content
              file_hash == call[w].ret[1].file_hash
          IN  /\ file_hash = _calculate_file_hash(b)
              /\ file_hash = md5_hexdigest(md5_update(md5_new, b))
              /\ \A size \in ChunkSizes :
                    file_hash = md5_hexdigest(HashChunked(b, 0, md5_new, size))

\* a sequence of MaxLen bytes, cut into several chunks by the smaller sizes,
\* has been hashed
C26_Witness ==
    \E w \in Calls :
       /\ call[w].pc = "hashed"
       /\ Len(call[w].req.content) = MaxLen
       /\ HashChunked(call[w].req.content, 0, md5_new, 1) = call[w].req.content

\* C30: _calculate_file_hash returns a digest for every byte sequence; for the
\* empty one, which passes the size check, no chunk is fed and the result is
\* the digest of the empty string.
C30_HashTotalAndEmptyInput ==
    \A w \in Calls :
       call[w].pc = "hashed"
       => LET b == call[w].req.content
              file_hash == call[w].ret[1].file_hash
          IN  /\ file_hash \in Nat
              /\ b = <<>>
                 => /\ ~FileTooLarge(b)
                    /\ ChunkOffsets(Len(b)) = {}
                    /\ HashFrom(b, 0, md5_new) = md5_new
                    /\ file_hash = md5_hexdigest(md5_new)

\* the empty sequence has been hashed
C30_Witness ==
    \E w \in Calls :
       /\ call[w].pc = "hashed"
       /\ call[w].req.content = <<>>
       /\ call[w].ret[1].file_hash = md5_hexdigest(<<>>)

\* the chunks of a sequence of chunks, one after the other
RECURSIVE Concat(_)
Concat(chunks) ==
    IF chunks = <<>> THEN <<>> ELSE Head(chunks) \o Concat(Tail(chunks))

\* C31: the chunks fed to the digest are at most one chunk size long, all but
\* the last one exactly that long, none is empty, and put together in order
\* they are the input, also when its length is a multiple of the chunk size;
\* the digest of _calculate_file_hash has been fed exactly the input.
C31_ChunksCoverInputOnce ==
    \A w \in Calls :
       call[w].pc = "hashed"
       => LET b == call[w].req.content
          IN  /\ HashFrom(b, 0, md5_new) = b
              /\ \A size \in ChunkSizes \cup {CHUNK} :
                    LET fed == ChunksFrom(b, 0, <<>>, size)
                    IN  /\ \A k \in 1..Len(fed) :
                              /\ Len(fed[k]) <= size
                              /\ Len(fed[k]) > 0
                              /\ k < Len(fed) => Len(fed[k]) = size
                        /\ Concat(fed) = b
                        /\ Len(fed) * size >= Len(b)
                        /\ Len(fed) > 0 => (Len(fed) - 1) * size < Len(b)

\* a sequence of MaxLen bytes has been hashed: it is one full chunk at chunk
\* size MaxLen, MaxLen full chunks at size 1, and a full and a short one at
\* size MaxLen - 1
C31_Witness ==
    \E w \in Calls :
       /\ call[w].pc = "hashed"
       /\ Len(call[w].req.content) = MaxLen
       /\ Len(ChunksFrom(call[w].req.content, 0, <<>>, MaxLen)) = 1
       /\ Len(ChunksFrom(call[w].req.content, 0, <<>>, 1)) = MaxLen
       /\ Len(ChunksFrom(call[w].req.content, 0, <<>>, MaxLen - 1)) = 2

\* C32: stored-content integrity.  For every Document that is 'completed' and
\* not deleted, the bytes at its upload_path are there and hash to its
\* file_hash, whatever uploads and deletions came after it.
C32_StoredBytesMatchFingerprint ==
    \A d \in DOMAIN docs :
       (docs[d].status = "completed" /\ ~docs[d].is_deleted)
       => /\ docs[d].upload_path \in DOMAIN files
          /\ _calculate_file_hash(files[docs[d].upload_path]) = docs[d].file_hash

\* C33: a view that upload_document returns to user u is of a Document whose
\* owner is u, in the fresh-create, reuse and duplicate-hit outcomes alike.
C33_ReturnedDocumentBelongsToCaller ==
    [][\A w \in Calls :
          (call[w].ret = Nothing /\ call'[w].ret # Nothing)
          => /\ call'[w].ret[1].document_id \in DOMAIN docs'
             /\ docs'[call'[w].ret[1].document_id].user_id = call[w].req.user_id]_vars

\* the request of call w fails one of the three checks of upload_document
Rejectable(req) ==
    \/ req.document_type \notin valid_types
    \/ Len(req.content) > upload_max_size
    \/ _get_file_extension(req.filename) \notin allowed_extensions

\* C35: a rejected upload changes nothing.  When upload_document raises for an
\* invalid document type, an over-limit size or a disallowed extension, the
\* registry and the stored files are the same before and after (no existing
\* Document is marked 'processing', no id is minted), and the error is that of
\* the first failing check in the order document type, size, extension.
C35_RejectedUploadChangesNothing ==
    [][\A w \in Calls :
          (call[w].pc = "lookup" /\ call'[w].pc # "lookup" /\ Rejectable(call[w].req))
          => /\ docs' = docs
             /\ files' = files
             /\ call'[w].ret = Nothing
             /\ call'[w].existing = NoDoc
             /\ call'[w].document_id = NoDoc
             /\ call'[w].pc \in {"done", "finish"}
             /\ call'[w].exc =
                   IF call[w].req.document_type \notin valid_types
                   THEN MsgInvalidDocType
                   ELSE IF Len(call[w].req.content) > upload_max_size
                   THEN MsgTooLarge
                   ELSE MsgBadExtension]_vars

\* an upload with an invalid document type was rejected although its bytes are
\* those of a Document that waits for a retry, which is still 'failed'
C35_Witness ==
    \E w \in Calls :
       /\ call[w].pc = "done"
       /\ call[w].exc = MsgInvalidDocType
       /\ \E d \in DOMAIN docs :
             /\ docs[d].file_hash = _calculate_file_hash(call[w].req.content)
             /\ docs[d].status = "failed"
             /\ ~docs[d].is_deleted
             /\ docs[d].upload_path \in DOMAIN files

\* the Documents of registry r that hold fingerprint h
Holding(r, h) == {d \in DOMAIN r : r[d].file_hash = h}

C36_DeletedStaysHiddenFromReaders ==
    \A d \in deleted :
       \A u \in Users :
          /\ get_document(d, u).exc = MsgNotFound
          /\ get_document(d, u).ret = Nothing
          /\ download_document(d, u).exc = MsgNotFound
          /\ download_document(d, u).ret = Nothing
          /\ d \notin get_user_documents(u)
          /\ \A term \in SearchTerms : d \notin search_documents(u, term)

\* a deleted Document whose type was updated, while the same bytes, uploaded
\* again after the deletion, are a second Document that its owner can read
C36_Witness ==
    \E d \in deleted, d2 \in DOMAIN docs :
       /\ d \in DOMAIN docs /\ d2 # d
       /\ docs[d].is_deleted
       /\ docs[d].document_type = "type2"
       /\ docs[d2].file_hash = docs[d].file_hash
       /\ docs[d2].status = "completed" /\ ~docs[d2].is_deleted
       /\ docs[d2].user_id = docs[d].user_id
       /\ get_document(d2, docs[d2].user_id).exc = None
       /\ get_document(d, docs[d].user_id).exc = MsgNotFound
       /\ d2 \in search_documents(docs[d].user_id, "txt")

\* the arguments of the updates
PermissionArgs == {<<>>, <<"read">>, <<"write">>}

\* C37: owner isolation.  Every operation of the service addressed to a
\* Document by id and called with a user_id that is not the Document's owner
\* raises DOCUMENT_NOT_FOUND, returns nothing and leaves the registry and the
\* stored files as they are, whether the Document is public or not.
C37_OwnerIsolation ==
    \A d \in DOMAIN docs, u \in Users :
       u # docs[d].user_id
       => /\ get_document(d, u) = Refused
          /\ download_document(d, u) = Refused
          /\ delete_document(d, u) = Refused
          /\ \A st \in StatusArgs \cup {"archived"} :
                update_document_processing_status(d, u, st) = Refused
          /\ \A perms \in PermissionArgs :
                update_document_permissions(d, u, perms) = Refused
          /\ \A t \in valid_types \cup {"bogus"} :
                update_document_type(d, u, t) = Refused
          /\ Refused.exc = MsgNotFound
          /\ Refused.docs = docs /\ Refused.files = files

\* a public Document, completed, with its file: its owner reads and downloads
\* it, the other user is refused
C37_Witness ==
    \E d \in DOMAIN docs :
       /\ docs[d].is_public /\ ~docs[d].is_deleted
       /\ docs[d].status = "completed"
       /\ docs[d].user_id = "u2"
       /\ get_document(d, "u2").exc = None
       /\ download_document(d, "u2").exc = None
       /\ get_document(d, "u1").exc = MsgNotFound
       /\ download_document(d, "u1").exc = MsgNotFound
       /\ delete_document(d, "u1").exc = MsgNotFound
       /\ delete_document(d, "u2").exc = None

\* C38: folder deletion cascades and persists.  No Document that is not
\* deleted has the folder_id of a folder that is inactive.
C38_NoLiveDocumentInDeletedFolder ==
    \A d \in DOMAIN docs :
       (~docs[d].is_deleted /\ docs[d].folder_id \in DOMAIN folders)
       => folders[docs[d].folder_id].is_active

====
